---- MODULE Spec2Model ----
(***************************************************************************)
(* gh-setup-git-identity: the core library (index.js) and the CLI entry    *)
(* point (cli.js), modelled as a state machine over an external world made *)
(* of the GitHub CLI (its session, the account behind it, the credential   *)
(* helper) and git's scoped config store.                                  *)
(*                                                                         *)
(* Text that the code trims (the captured stdout of a child process) is a  *)
(* sequence of one-character strings, so that String.prototype.trim is a   *)
(* real conversion.  Option values and argument-list tokens are opaque     *)
(* strings.                                                                *)
(*                                                                         *)
(* Five specifications share the variables:                                *)
(*   LoginSpec  a library client calling runGhAuthLogin once, with any     *)
(*              options object;                                            *)
(*   ConfigSpec a library client calling setGitConfig and getGitConfig;    *)
(*   LibSpec    a library client calling setupGitIdentity,                 *)
(*              verifyGitIdentity and getGitHubUserInfo;                   *)
(*   Spec       one invocation of the CLI (makeConfig, then main);         *)
(*   EnvSpec    one invocation of the CLI with options on the command line *)
(*              and variables in the environment, until the login returns. *)
(***************************************************************************)
EXTENDS Integers, Sequences, FiniteSets, TLC

VARIABLES
    \* ---- the external world
    gitStore,      \* git's config store: scope -> key -> value or NULL
    gitInstalled,  \* the git binary can be started
    inRepo,        \* the working directory is a repository (--local works)
    ghInstalled,   \* the gh binary can be started
    ghAuthed,      \* gh holds a valid session
    ghAccount,     \* [login, email] of the GitHub account ("" = no primary email)
    credHelper,    \* git's credential helper is set to gh (gh auth setup-git)
    \* ---- the program
    entry,         \* who runs: "auth" / "lib" client, or "cli"
    pc,            \* position of the running function
    config,        \* the CLI's parsed configuration (makeConfig)
    cliArgs,          \* the options given on the command line: option -> value
    env,           \* the environment variables that are set: name -> value
    call,          \* the library call in progress: function name and arguments
    ret,           \* how the last finished call ended: value or thrown error
    loginOpts,     \* the options object runGhAuthLogin was given
    loginArgs,     \* the argument list runGhAuthLogin built
    child,         \* the interactive child process: stdio mode and piped input
    authenticated, \* main's `authenticated`
    loginSuccess,  \* main's `loginSuccess`
    setupGitSuccess, \* main's `setupGitSuccess`
    qUser,         \* the username query of getGitHubUserInfo
    qEmail,        \* the email query of getGitHubUserInfo
    identity,      \* {username, email} destructured in setupGitIdentity
    log,           \* external commands run and messages printed, in order
    lastOutcome,   \* how the last awaited child process ended
    runnerResult,  \* `result`: what the runner's promise last resolved with
    exitCode,      \* the code process.exit was called with, if it was
    store0,        \* gitStore when the call / the invocation started
    prev,          \* the write call that returned normally just before this call
    ncalls         \* library calls made by the client so far

worldVars == <<gitStore, gitInstalled, inRepo, ghInstalled, ghAuthed, ghAccount, credHelper>>
progVars  == <<entry, pc, config, cliArgs, env, call, ret, loginOpts, loginArgs, child, authenticated,
               loginSuccess, setupGitSuccess, runnerResult,
               qUser, qEmail, identity, log, lastOutcome, exitCode, store0, prev, ncalls>>
vars      == <<worldVars, progVars>>

----------------------------------------------------------------------------
(* Bounds *)

\* Longest config value the client writes, in characters.
MaxLen == 1
\* Library calls one client makes in a row.
MaxCalls == 2
\* Most options one CLI invocation sets away from their defaults.
MaxFlags == 3
\* Options given and environment variables set in one invocation, together.
MaxGiven == 2

----------------------------------------------------------------------------
(* Text *)

\* null, as getGitConfig returns it: no text equals it.
NULL == <<"null">>
Chars == {"a", " "}
WhiteSpace == {" ", "\n"}

Strings == UNION {[1..n -> Chars] : n \in 0..MaxLen}

\* String.prototype.trim, as execCommand applies it to stdout and stderr.
RECURSIVE TrimStart(_)
TrimStart(s) ==
    IF s = <<>> THEN <<>>
    ELSE IF Head(s) \in WhiteSpace THEN TrimStart(Tail(s)) ELSE s

RECURSIVE TrimEnd(_)
TrimEnd(s) ==
    IF s = <<>> THEN <<>>
    ELSE IF s[Len(s)] \in WhiteSpace THEN TrimEnd(SubSeq(s, 1, Len(s) - 1)) ELSE s

Trim(s) == TrimEnd(TrimStart(s))

\* What a command that prints one value writes to stdout: the value and a newline.
PrintLine(v) == Append(v, "\n")

----------------------------------------------------------------------------
(* Command Runner: execCommand and execInteractiveCommand *)

\* How a child process ends, as the runner sees it: the 'error' event (the
\* process could not be started), or the 'close' event with exit code 0, with
\* a non-zero exit code, or with code null (the process was ended by a signal).
ChildOutcomes == {"error", "exit0", "exit1", "signal"}

\* Mutant: the 'error' handler resolves like the 'close' handler of a child
\* without an exit code.
ResolveExitCode_ErrorAsZero(outcome) == IF outcome = "exit1" THEN 1 ELSE 0

\* The exitCode of the object the runner's promise resolves with:
\* `exitCode || 0` on 'close', 1 on 'error'.
ResolveExitCode(outcome) ==
    CASE outcome = "error"  -> 1
      [] outcome = "exit0"  -> 0
      [] outcome = "exit1"  -> 1
      [] outcome = "signal" -> 0

\* error.message of the 'error' event.
SpawnErrorMessage == <<"s", "p", "a", "w", "n", " ", "E", "N", "O", "E", "N", "T">>

\* What a child has written to its stderr when it ends: a complaint and a
\* newline when it exits non-zero.
ChildStderr(outcome) == IF outcome = "exit1" THEN <<"f", "a", "t", "a", "l", "\n">> ELSE <<>>

\* execCommand's resolved {stdout, stderr, exitCode}: the captured output
\* trimmed on 'close', error.message as stderr on 'error'.
execCommand(outcome, rawStdout) ==
    [stdout |-> Trim(rawStdout),
     stderr |-> IF outcome = "error" THEN SpawnErrorMessage ELSE Trim(ChildStderr(outcome)),
     exitCode |-> ResolveExitCode(outcome)]

\* execInteractiveCommand's resolved {exitCode}.
execInteractiveCommand(outcome) == [exitCode |-> ResolveExitCode(outcome)]

\* No runner call has resolved yet.
NoResult == [settled |-> FALSE]

\* execInteractiveCommand's spawn: stdin is a pipe that receives `input` and is
\* closed when input is given, and is inherited from the caller otherwise.
NoInput == "undefined"
execInteractiveSpawn(input) ==
    IF input # NoInput
    THEN [stdio |-> "pipe", written |-> input, stdinEnded |-> TRUE]
    ELSE [stdio |-> "inherit", written |-> NoInput, stdinEnded |-> FALSE]

NoChild == [stdio |-> "none", written |-> NoInput, stdinEnded |-> FALSE]

----------------------------------------------------------------------------
(* Login Orchestrator: defaultAuthOptions and runGhAuthLogin's argument list *)

StrFields  == {"hostname", "scopes", "gitProtocol"}
BoolFields == {"web", "withToken", "skipSshKey", "insecureStorage", "clipboard"}
AuthFields == StrFields \cup BoolFields

defaultAuthOptions ==
    [hostname |-> "github.com",
     scopes |-> "repo,workflow,user,read:org,gist",
     gitProtocol |-> "https",
     web |-> TRUE,
     withToken |-> FALSE,
     skipSshKey |-> FALSE,
     insecureStorage |-> FALSE,
     clipboard |-> FALSE]

\* An options object: `given` are the properties present in it; a property
\* that is absent (undefined) takes its default in the destructuring.
Opt(o, f) == IF f \in o.given THEN o[f] ELSE defaultAuthOptions[f]

\* The options objects a caller of the library passes.  "" is the falsy string.
Hostnames    == {"", "ghe.example.com"}
ScopeLists   == {"", "repo"}
GitProtocols == {"", "ssh"}

\* One property of the object: absent, or present with one of the values.
OptChoices(values) ==
    {[given |-> FALSE, v |-> x] : x \in {CHOOSE y \in values : TRUE}}
        \cup {[given |-> TRUE, v |-> x] : x \in values}

MkOptions(c) ==
    [given |-> {f \in AuthFields : c[f].given}]
        @@ [f \in AuthFields |-> IF c[f].given THEN c[f].v ELSE defaultAuthOptions[f]]

AuthOptionSets ==
    { MkOptions([hostname |-> h, scopes |-> s, gitProtocol |-> p, web |-> w,
                 withToken |-> t, skipSshKey |-> k, insecureStorage |-> i,
                 clipboard |-> c]) :
        h \in OptChoices(Hostnames), s \in OptChoices(ScopeLists),
        p \in OptChoices(GitProtocols), w \in OptChoices(BOOLEAN),
        t \in OptChoices(BOOLEAN), k \in OptChoices(BOOLEAN),
        i \in OptChoices(BOOLEAN), c \in OptChoices(BOOLEAN) }

NoOptions == [given |-> {}] @@ defaultAuthOptions

PushIf(cond, args, more) == IF cond THEN args \o more ELSE args

\* Mutant: --web pushed whenever web is set.
LoginWebFlag_IgnoresToken(web, withToken) == web

\* `web && !withToken`
LoginWebFlag(web, withToken) == web /\ ~withToken

\* Mutant: --clipboard pushed without looking at web.
LoginClipboardFlag_IgnoresWeb(clipboard, web, withToken) == clipboard /\ ~withToken

\* `clipboard && web && !withToken`
LoginClipboardFlag(clipboard, web, withToken) == clipboard /\ web /\ ~withToken

\* runGhAuthLogin, the argument list.
LoginArgs(o) ==
    LET hostname        == Opt(o, "hostname")
        scopes          == Opt(o, "scopes")
        gitProtocol     == Opt(o, "gitProtocol")
        web             == Opt(o, "web")
        withToken       == Opt(o, "withToken")
        skipSshKey      == Opt(o, "skipSshKey")
        insecureStorage == Opt(o, "insecureStorage")
        clipboard       == Opt(o, "clipboard")
        a0 == <<"auth", "login">>
        a1 == PushIf(hostname # "", a0, <<"-h", hostname>>)
        a2 == PushIf(scopes # "", a1, <<"-s", scopes>>)
        a3 == PushIf(gitProtocol # "", a2, <<"--git-protocol", gitProtocol>>)
        a4 == PushIf(LoginWebFlag(web, withToken), a3, <<"--web">>)
        a5 == PushIf(withToken, a4, <<"--with-token">>)
        a6 == PushIf(skipSshKey, a5, <<"--skip-ssh-key">>)
        a7 == PushIf(insecureStorage, a6, <<"--insecure-storage">>)
        a8 == PushIf(LoginClipboardFlag(clipboard, web, withToken), a7, <<"--clipboard">>)
    IN a8

\* Mutant: the confirmation is piped in token mode too.
LoginInput_AlwaysConfirms(o) == "y\n"

\* runGhAuthLogin, the input piped to the login process.
LoginInput(o) == IF Opt(o, "withToken") THEN NoInput ELSE "y\n"

Contains(args, flag) == \E i \in 1..Len(args) : args[i] = flag

----------------------------------------------------------------------------
(* The external world *)

Scopes == {"global", "local"}
Keys   == {"user.name", "user.email"}

\* GitHub accounts: a login is never empty and holds no white space; the
\* primary email is <<>> when the account has none.
Logins == {<<"a">>}
Emails == {<<"a", "a">>, <<>>}
GhAccounts == [login : Logins, email : Emails]

EmptyStore == [s \in Scopes |-> [k \in Keys |-> NULL]]

\* How `gh auth status` ends: exit 0 with a session, non-zero without one.
GhStatusOutcomes ==
    IF ~ghInstalled THEN {"error"}
    ELSE {IF ghAuthed THEN "exit0" ELSE "exit1", "signal"}

\* How `gh auth login` ends: the user (or the token on stdin) decides.
GhLoginOutcomes ==
    IF ~ghInstalled THEN {"error"} ELSE {"exit0", "exit1", "signal"}

\* The session after `gh auth login` ended: stored on exit 0, untouched on a
\* failure, either when the process was ended by a signal.
GhLoginSessions(outcome) ==
    CASE outcome = "exit0"  -> {TRUE}
      [] outcome = "signal" -> {ghAuthed, TRUE}
      [] OTHER              -> {ghAuthed}

----------------------------------------------------------------------------
(* Program state shared by the entry points *)

\* process.exit has not been called / was called with this code.
NoExit  == <<>>
Exit(code) == <<code>>
NoRet   == [kind |-> "none", val |-> "none"]
Value(v) == [kind |-> "value", val |-> v]
Throw(e) == [kind |-> "throw", val |-> e]
NoCall  == [fn |-> "none", key |-> "none", value |-> <<>>, scope |-> "none", dryRun |-> FALSE]
NoQuery == [st |-> "idle", out |-> <<>>, err |-> "none", outcome |-> "none"]
NoIdentity == [username |-> NULL, email |-> NULL]
NoOutcome == "none"
NoPrev == [fn |-> "none", key |-> "none", value |-> <<>>, scope |-> "none",
           identity |-> NoIdentity, outcome |-> "none"]
Unknown == "unknown"

DefaultConfig ==
    [global |-> FALSE, local |-> FALSE, verbose |-> FALSE, dryRun |-> FALSE,
     verify |-> FALSE, repair |-> FALSE, noAutoLogin |-> FALSE,
     hostname |-> defaultAuthOptions.hostname,
     scopes |-> defaultAuthOptions.scopes,
     gitProtocol |-> defaultAuthOptions.gitProtocol,
     web |-> defaultAuthOptions.web,
     withToken |-> FALSE,
     skipSshKey |-> defaultAuthOptions.skipSshKey,
     insecureStorage |-> defaultAuthOptions.insecureStorage,
     clipboard |-> defaultAuthOptions.clipboard]

\* No option on the command line, no environment variable set.
NoArgs == <<>>
NoEnv == <<>>

\* The environment variable an option's default is read from, "none" for the
\* options whose default is a literal.
EnvVar(option) ==
    CASE option = "local"           -> "GH_SETUP_GIT_IDENTITY_LOCAL"
      [] option = "verbose"         -> "GH_SETUP_GIT_IDENTITY_VERBOSE"
      [] option = "dryRun"          -> "GH_SETUP_GIT_IDENTITY_DRY_RUN"
      [] option = "hostname"        -> "GH_AUTH_HOSTNAME"
      [] option = "scopes"          -> "GH_AUTH_SCOPES"
      [] option = "gitProtocol"     -> "GH_AUTH_GIT_PROTOCOL"
      [] option = "web"             -> "GH_AUTH_WEB"
      [] option = "skipSshKey"      -> "GH_AUTH_SKIP_SSH_KEY"
      [] option = "insecureStorage" -> "GH_AUTH_INSECURE_STORAGE"
      [] option = "clipboard"       -> "GH_AUTH_CLIPBOARD"
      [] OTHER                      -> "none"

\* getenv(name, default): the variable's value when it is set, the default
\* otherwise.
getenv(e, name, default) == IF name \in DOMAIN e THEN e[name] ELSE default

\* Mutant: the environment is not looked at.
OptionDefault_IgnoresEnv(e, option) == DefaultConfig[option]

\* The `default:` of an option.
OptionDefault(e, option) ==
    IF EnvVar(option) = "none" THEN DefaultConfig[option]
    ELSE getenv(e, EnvVar(option), DefaultConfig[option])

\* The parsed configuration: an option given on the command line has the
\* given value, any other option its default.
ParseConfig(a, e) ==
    [option \in DOMAIN DefaultConfig |->
        IF option \in DOMAIN a THEN a[option] ELSE OptionDefault(e, option)]

\* Mutant: main logs in whatever the auth check returned.
ReturnPc_AlwaysLogsIn(fn) ==
    IF entry # "cli" THEN "idle"
    ELSE CASE fn = "isGhAuthenticated" -> "runGhAuthLogin"
           [] fn = "runGhAuthLogin"    -> "main_loginDone"
           [] fn = "runGhAuthSetupGit" -> "main_setupGitDone"
           [] fn = "setupGitIdentity"  -> "main_identityDone"
           [] fn = "verifyGitIdentity" -> "runVerify_done"
           [] OTHER                    -> "idle"

\* Where a library function returns to: the client, or main's next statement.
ReturnPc(fn) ==
    IF entry # "cli" THEN "idle"
    ELSE CASE fn = "isGhAuthenticated" -> "main_authChecked"
           [] fn = "runGhAuthLogin"    -> "main_loginDone"
           [] fn = "runGhAuthSetupGit" -> "main_setupGitDone"
           [] fn = "setupGitIdentity"  -> "main_identityDone"
           [] fn = "verifyGitIdentity" -> "runVerify_done"
           [] OTHER                    -> "idle"

\* Mutant: main goes on after a thrown error as after a return.
ThrowPc_AsReturn == IF entry = "cli" THEN "main_identityDone" ELSE "idle"

\* Where a thrown error lands: the client, or main's catch block.
ThrowPc == IF entry = "cli" THEN "main_catch" ELSE "idle"

ProgInit(e, start) ==
    /\ entry = e
    /\ pc = start
    /\ call = NoCall
    /\ ret = NoRet
    /\ loginOpts = NoOptions
    /\ loginArgs = <<>>
    /\ child = NoChild
    /\ authenticated = Unknown
    /\ loginSuccess = Unknown
    /\ setupGitSuccess = Unknown
    /\ qUser = NoQuery
    /\ qEmail = NoQuery
    /\ identity = NoIdentity
    /\ log = <<>>
    /\ lastOutcome = NoOutcome
    /\ runnerResult = NoResult
    /\ exitCode = NoExit
    /\ store0 = gitStore
    /\ prev = NoPrev
    /\ ncalls = 0

----------------------------------------------------------------------------
(* Auth Status Checker and Login Orchestrator *)

\* isGhAuthenticated: run `gh auth status`, true iff the resolved exitCode is 0.
isGhAuthenticated ==
    /\ pc = "isGhAuthenticated"
    /\ \E outcome \in GhStatusOutcomes :
         LET result == execCommand(outcome, <<>>)
             answer == (result.exitCode = 0)
         IN /\ lastOutcome' = outcome
            /\ runnerResult' = result
            /\ ret' = Value(answer)
            /\ authenticated' = IF entry = "cli" THEN answer ELSE authenticated
    /\ log' = Append(log, "gh auth status")
    /\ pc' = ReturnPc("isGhAuthenticated")
    /\ UNCHANGED <<worldVars, entry, config, cliArgs, env, call, loginOpts, loginArgs, child,
                   loginSuccess, setupGitSuccess, qUser, qEmail, identity, exitCode, store0,
                   prev, ncalls>>

\* runGhAuthLogin up to the await: build the arguments, spawn the login
\* interactively and pipe the confirmation to it.
runGhAuthLogin_spawn ==
    /\ pc = "runGhAuthLogin"
    /\ loginArgs' = LoginArgs(loginOpts)
    /\ child' = execInteractiveSpawn(LoginInput(loginOpts))
    /\ log' = Append(log, "gh auth login")
    /\ pc' = "runGhAuthLogin_await"
    /\ UNCHANGED <<worldVars, entry, config, cliArgs, env, call, ret, loginOpts, authenticated,
                   loginSuccess, setupGitSuccess, qUser, qEmail, identity, lastOutcome,
                   runnerResult, exitCode, store0, prev, ncalls>>

\* runGhAuthLogin after the await: true iff the resolved exitCode is 0.
runGhAuthLogin_settle ==
    /\ pc = "runGhAuthLogin_await"
    /\ \E outcome \in GhLoginOutcomes :
         /\ \E session \in GhLoginSessions(outcome) : ghAuthed' = session
         /\ lastOutcome' = outcome
         /\ runnerResult' = execInteractiveCommand(outcome)
         /\ ret' = Value(execInteractiveCommand(outcome).exitCode = 0)
         /\ loginSuccess' = IF entry = "cli" THEN ResolveExitCode(outcome) = 0
                             ELSE loginSuccess
    /\ pc' = ReturnPc("runGhAuthLogin")
    /\ UNCHANGED <<gitStore, gitInstalled, inRepo, ghInstalled, ghAccount, credHelper,
                   entry, config, cliArgs, env, call, loginOpts, loginArgs, child, authenticated,
                   setupGitSuccess, qUser, qEmail, identity, log, exitCode, store0, prev,
                   ncalls>>

\* How `gh auth setup-git -h <hostname>` ends: it needs a session for the host
\* and a git to configure.
GhSetupGitOutcomes ==
    IF ~ghInstalled THEN {"error"}
    ELSE IF ghAuthed /\ gitInstalled THEN {"exit0", "exit1", "signal"}
    ELSE {"exit1", "signal"}

\* runGhAuthSetupGit: run `gh auth setup-git`, true iff it succeeded.
runGhAuthSetupGit ==
    /\ pc = "runGhAuthSetupGit"
    /\ \E outcome \in GhSetupGitOutcomes :
         /\ lastOutcome' = outcome
         /\ runnerResult' = NoResult
         /\ credHelper' = IF outcome = "exit0" THEN TRUE ELSE credHelper
         /\ ret' = Value(ResolveExitCode(outcome) = 0)
         /\ setupGitSuccess' = IF entry = "cli" THEN ResolveExitCode(outcome) = 0
                                ELSE setupGitSuccess
    /\ log' = Append(log, "gh auth setup-git")
    /\ pc' = ReturnPc("runGhAuthSetupGit")
    /\ UNCHANGED <<gitStore, gitInstalled, inRepo, ghInstalled, ghAuthed, ghAccount, entry,
                   config, cliArgs, env, call, loginOpts, loginArgs, child, authenticated, loginSuccess,
                   qUser, qEmail, identity, exitCode, store0, prev, ncalls>>

----------------------------------------------------------------------------
(* runGhAuthLogin called by a library client, once, with any options object *)

LoginInit ==
    /\ gitStore = EmptyStore
    /\ gitInstalled = TRUE
    /\ inRepo = TRUE
    /\ ghInstalled \in BOOLEAN
    /\ ghAuthed \in BOOLEAN
    /\ ghAuthed => ghInstalled
    /\ ghAccount = [login |-> <<"a">>, email |-> <<"a", "a">>]
    /\ credHelper = FALSE
    /\ cliArgs = NoArgs
    /\ env = NoEnv
    /\ config = ParseConfig(cliArgs, env)
    /\ entry = "lib"
    /\ pc = "runGhAuthLogin"
    /\ call = [NoCall EXCEPT !.fn = "runGhAuthLogin"]
    /\ ret = NoRet
    /\ loginOpts \in AuthOptionSets
    /\ loginArgs = <<>>
    /\ child = NoChild
    /\ authenticated = Unknown
    /\ loginSuccess = Unknown
    /\ setupGitSuccess = Unknown
    /\ qUser = NoQuery
    /\ qEmail = NoQuery
    /\ identity = NoIdentity
    /\ log = <<>>
    /\ lastOutcome = NoOutcome
    /\ runnerResult = NoResult
    /\ exitCode = NoExit
    /\ store0 = gitStore
    /\ prev = NoPrev
    /\ ncalls = 0

LoginNext ==
    \/ runGhAuthLogin_spawn
    \/ runGhAuthLogin_settle

LoginSpec == LoginInit /\ [][LoginNext]_vars

----------------------------------------------------------------------------
(* Claims about the login argument list *)

LoginSpawned == call.fn = "runGhAuthLogin" /\ pc \in {"runGhAuthLogin_await", "idle"}

\* C1: with withToken = true, whatever the other options, the argument list
\* built for `gh auth login` holds --with-token and neither --web nor --clipboard.
C1_TokenModeArgs ==
    (LoginSpawned /\ Opt(loginOpts, "withToken"))
        => /\ Contains(loginArgs, "--with-token")
           /\ ~Contains(loginArgs, "--web")
           /\ ~Contains(loginArgs, "--clipboard")

\* C1 witness: a token-mode login was spawned although web and clipboard were
\* both asked for.
C1_Witness ==
    /\ LoginSpawned
    /\ {"withToken", "web", "clipboard"} \subseteq loginOpts.given
    /\ loginOpts.withToken /\ loginOpts.web /\ loginOpts.clipboard
    /\ Contains(loginArgs, "--with-token")

\* C2: with withToken = false and web = true the list holds --web, and holds
\* --clipboard iff clipboard = true; with web = false it never holds --clipboard.
C2_WebModeArgs ==
    LoginSpawned =>
        /\ (~Opt(loginOpts, "withToken") /\ Opt(loginOpts, "web"))
              => /\ Contains(loginArgs, "--web")
                 /\ Contains(loginArgs, "--clipboard") <=> Opt(loginOpts, "clipboard")
        /\ ~Opt(loginOpts, "web") => ~Contains(loginArgs, "--clipboard")

\* C2 witness: a web login with the clipboard flag was spawned.
C2_Witness ==
    /\ LoginSpawned
    /\ ~Opt(loginOpts, "withToken") /\ Opt(loginOpts, "web") /\ Opt(loginOpts, "clipboard")
    /\ Contains(loginArgs, "--web") /\ Contains(loginArgs, "--clipboard")

----------------------------------------------------------------------------
(* git's config store, as `git config --<scope> <key> [<value>]` acts on it *)

\* `scope === 'local' ? '--local' : '--global'`
ScopeFlag(scope) == IF scope = "local" THEN "local" ELSE "global"

GitScopeUsable(sf) == gitInstalled /\ (sf = "local" => inRepo)

\* How a write ends: it may fail for reasons of its own (a lock, a read-only
\* file) and always fails for --local outside a repository.
GitWriteOutcomes(sf) ==
    IF ~gitInstalled THEN {"error"}
    ELSE IF ~GitScopeUsable(sf) THEN {"exit1", "signal"}
    ELSE {"exit0", "exit1", "signal"}

\* The store after a write ended: the value is stored as given on exit 0, the
\* store is untouched on a failure, either when git was ended by a signal.
GitWriteStores(outcome, sf, key, value) ==
    LET written == [gitStore EXCEPT ![sf][key] = value]
    IN CASE outcome = "exit0" -> {written}
         [] outcome = "signal" /\ GitScopeUsable(sf) -> {gitStore, written}
         [] OTHER -> {gitStore}

\* How a read ends: exit 1 for a key that is not set.
GitReadOutcomes(sf, key) ==
    IF ~gitInstalled THEN {"error"}
    ELSE IF ~GitScopeUsable(sf) \/ gitStore[sf][key] = NULL THEN {"exit1", "signal"}
    ELSE {"exit0", "signal"}

\* What a read has printed when it ended: the value and a newline on exit 0,
\* that or nothing yet when it was ended by a signal.
GitReadStdouts(outcome, sf, key) ==
    LET set == GitScopeUsable(sf) /\ gitStore[sf][key] # NULL
    IN CASE outcome = "exit0" -> {PrintLine(gitStore[sf][key])}
         [] outcome = "signal" /\ set -> {<<>>, PrintLine(gitStore[sf][key])}
         [] OTHER -> {<<>>}

GitSetCmd(key) == IF key = "user.name" THEN "git config set user.name"
                  ELSE "git config set user.email"
GitGetCmd(key) == IF key = "user.name" THEN "git config get user.name"
                  ELSE "git config get user.email"

----------------------------------------------------------------------------
(* Config Accessor: setGitConfig and getGitConfig *)

SetError(key) == IF key = "user.name" THEN "Failed to set git config user.name"
                 ELSE "Failed to set git config user.email"

\* Mutant: the exit code of the write is not looked at.
SetGitConfigThrows_Never(outcome) == FALSE

\* setGitConfig throws iff the resolved exitCode is not 0.
SetGitConfigThrows(outcome) == execCommand(outcome, <<>>).exitCode # 0

\* setGitConfig: run the write against the scope's store.
setGitConfig(key, value, scope, outcome) ==
    /\ outcome \in GitWriteOutcomes(ScopeFlag(scope))
    /\ gitStore' \in GitWriteStores(outcome, ScopeFlag(scope), key, value)
    /\ lastOutcome' = outcome
    /\ runnerResult' = execCommand(outcome, <<>>)
    /\ log' = Append(log, GitSetCmd(key))

\* Mutant: the captured output is returned whatever the exit code.
GetGitConfigValue_IgnoresExit(outcome, rawStdout) == execCommand(outcome, rawStdout).stdout

\* getGitConfig's return value: null when the resolved exitCode is not 0, the
\* trimmed stdout otherwise.
GetGitConfigValue(outcome, rawStdout) ==
    LET result == execCommand(outcome, rawStdout)
    IN IF result.exitCode # 0 THEN NULL ELSE result.stdout

\* getGitConfig: run the read against the scope's store; v is what it returns.
getGitConfig(key, scope, outcome, rawStdout) ==
    /\ outcome \in GitReadOutcomes(ScopeFlag(scope), key)
    /\ rawStdout \in GitReadStdouts(outcome, ScopeFlag(scope), key)
    /\ lastOutcome' = outcome
    /\ runnerResult' = execCommand(outcome, rawStdout)
    /\ log' = Append(log, GitGetCmd(key))

\* setGitConfig called by the client.
setGitConfig_call ==
    /\ pc = "setGitConfig"
    /\ \E outcome \in ChildOutcomes :
         /\ setGitConfig(call.key, call.value, call.scope, outcome)
         /\ ret' = IF SetGitConfigThrows(outcome) THEN Throw(SetError(call.key))
                   ELSE Value("undefined")
    /\ pc' = "idle"
    /\ UNCHANGED <<gitInstalled, inRepo, ghInstalled, ghAuthed, ghAccount, credHelper,
                   entry, config, cliArgs, env, call, loginOpts, loginArgs, child, authenticated,
                   loginSuccess, setupGitSuccess, qUser, qEmail, identity, exitCode, store0,
                   prev, ncalls>>

\* getGitConfig called by the client.
getGitConfig_call ==
    /\ pc = "getGitConfig"
    /\ \E outcome \in ChildOutcomes :
         \E raw \in GitReadStdouts(outcome, ScopeFlag(call.scope), call.key) :
            /\ getGitConfig(call.key, call.scope, outcome, raw)
            /\ ret' = Value(GetGitConfigValue(outcome, raw))
    /\ pc' = "idle"
    /\ UNCHANGED <<worldVars, entry, config, cliArgs, env, call, loginOpts, loginArgs, child,
                   authenticated, loginSuccess, setupGitSuccess, qUser, qEmail, identity,
                   exitCode, store0, prev, ncalls>>

----------------------------------------------------------------------------
(* Identity Fetcher: getGitHubUsername, getGitHubEmail, getGitHubUserInfo *)

\* How a `gh api` query ends: it needs a session, and may fail with one.
GhApiOutcomes ==
    IF ~ghInstalled THEN {"error"}
    ELSE IF ghAuthed THEN {"exit0", "exit1", "signal"}
    ELSE {"exit1", "signal"}

\* What a query has printed when it ended; --jq prints nothing for no match.
GhApiStdouts(outcome, text) ==
    LET full == IF text = <<>> THEN <<>> ELSE PrintLine(text)
    IN CASE outcome = "exit0" -> {full}
         [] outcome = "signal" /\ ghAuthed -> {<<>>, full}
         [] OTHER -> {<<>>}

\* Mutant: the captured output is returned as it was printed.
UsernameResult_Untrimmed(outcome, rawStdout) ==
    LET result == execCommand(outcome, rawStdout)
    IN IF result.exitCode # 0
       THEN [st |-> "failed", out |-> <<>>, err |-> "Failed to get GitHub username",
             outcome |-> outcome]
       ELSE [st |-> "ok", out |-> rawStdout, err |-> "none", outcome |-> outcome]

\* getGitHubUsername after its await.
UsernameResult(outcome, rawStdout) ==
    LET result == execCommand(outcome, rawStdout)
    IN IF result.exitCode # 0
       THEN [st |-> "failed", out |-> <<>>, err |-> "Failed to get GitHub username",
             outcome |-> outcome]
       ELSE [st |-> "ok", out |-> result.stdout, err |-> "none", outcome |-> outcome]

\* Mutant: an empty output is returned as the email.
EmailResult_NoEmptyCheck(outcome, rawStdout) ==
    LET result == execCommand(outcome, rawStdout)
    IN IF result.exitCode # 0
       THEN [st |-> "failed", out |-> <<>>, err |-> "Failed to get GitHub email",
             outcome |-> outcome]
       ELSE [st |-> "ok", out |-> result.stdout, err |-> "none", outcome |-> outcome]

\* getGitHubEmail after its await.
EmailResult(outcome, rawStdout) ==
    LET result == execCommand(outcome, rawStdout)
    IN IF result.exitCode # 0
       THEN [st |-> "failed", out |-> <<>>, err |-> "Failed to get GitHub email",
             outcome |-> outcome]
       ELSE IF result.stdout = <<>>
       THEN [st |-> "failed", out |-> <<>>, err |-> "No primary email found",
             outcome |-> outcome]
       ELSE [st |-> "ok", out |-> result.stdout, err |-> "none", outcome |-> outcome]

Running == [NoQuery EXCEPT !.st = "running"]

\* getGitHubUserInfo up to the await of Promise.all: both queries are started,
\* the username query first, neither waiting for the other.
getGitHubUserInfo_spawn ==
    /\ pc \in {"setupGitIdentity", "getGitHubUserInfo"}
    /\ qUser' = Running
    /\ qEmail' = Running
    /\ log' = log \o <<"gh api user", "gh api user/emails">>
    /\ pc' = "getGitHubUserInfo_await"
    /\ UNCHANGED <<worldVars, entry, config, cliArgs, env, call, ret, loginOpts, loginArgs, child,
                   authenticated, loginSuccess, setupGitSuccess, identity, lastOutcome,
                   runnerResult, exitCode, store0, prev, ncalls>>

\* Mutant: the dry-run return is missing.
SetupAfterFetchPc_NoDryRun(dryRun) == "setupGitIdentity_setName"

\* setupGitIdentity after the fetch: `if (dryRun) return`, else configure git.
SetupAfterFetchPc(dryRun) ==
    IF dryRun THEN ReturnPc("setupGitIdentity") ELSE "setupGitIdentity_setName"

\* Mutant: the first query to succeed resolves the whole (a race instead of
\* Promise.all).
PromiseAllSettled_FirstWins(settled, qU, qE) ==
    LET info == [username |-> qU.out, email |-> qE.out]
    IN IF settled.st = "failed"
       THEN /\ ret' = Throw(settled.err)
            /\ pc' = ThrowPc
            /\ identity' = identity
       ELSE /\ identity' = info
            /\ IF call.fn = "getGitHubUserInfo"
               THEN ret' = Value(info) /\ pc' = "idle"
               ELSE /\ pc' = SetupAfterFetchPc(call.dryRun)
                    /\ ret' = IF call.dryRun THEN Value(info) ELSE ret

\* One query settled while Promise.all is awaited: a rejection rejects the
\* whole at once and the error propagates to the caller; the second success
\* resolves it, and the caller continues in the same turn.
PromiseAllSettled(settled, qU, qE) ==
    LET info == [username |-> qU.out, email |-> qE.out]
    IN IF settled.st = "failed"
       THEN /\ ret' = Throw(settled.err)
            /\ pc' = ThrowPc
            /\ identity' = identity
       ELSE IF qU.st = "ok" /\ qE.st = "ok"
       THEN /\ identity' = info
            /\ IF call.fn = "getGitHubUserInfo"
               THEN ret' = Value(info) /\ pc' = "idle"
               ELSE /\ pc' = SetupAfterFetchPc(call.dryRun)
                    /\ ret' = IF call.dryRun THEN Value(info) ELSE ret
       ELSE UNCHANGED <<ret, pc, identity>>

\* The username query ends.
getGitHubUsername_settle ==
    /\ qUser.st = "running"
    /\ exitCode = NoExit
    /\ \E outcome \in GhApiOutcomes :
         \E raw \in GhApiStdouts(outcome, ghAccount.login) :
            /\ qUser' = UsernameResult(outcome, raw)
            /\ IF pc = "getGitHubUserInfo_await"
               THEN PromiseAllSettled(qUser', qUser', qEmail)
               ELSE UNCHANGED <<ret, pc, identity>>
    /\ UNCHANGED <<worldVars, entry, config, cliArgs, env, call, loginOpts, loginArgs, child,
                   authenticated, loginSuccess, setupGitSuccess, qEmail, log, lastOutcome,
                   runnerResult, exitCode, store0, prev, ncalls>>

\* The email query ends.
getGitHubEmail_settle ==
    /\ qEmail.st = "running"
    /\ exitCode = NoExit
    /\ \E outcome \in GhApiOutcomes :
         \E raw \in GhApiStdouts(outcome, ghAccount.email) :
            /\ qEmail' = EmailResult(outcome, raw)
            /\ IF pc = "getGitHubUserInfo_await"
               THEN PromiseAllSettled(qEmail', qUser, qEmail')
               ELSE UNCHANGED <<ret, pc, identity>>
    /\ UNCHANGED <<worldVars, entry, config, cliArgs, env, call, loginOpts, loginArgs, child,
                   authenticated, loginSuccess, setupGitSuccess, qUser, log, lastOutcome,
                   runnerResult, exitCode, store0, prev, ncalls>>

----------------------------------------------------------------------------
(* Setup/Verify Orchestrator: setupGitIdentity and verifyGitIdentity *)

\* setupGitIdentity: `await setGitConfig('user.name', username, ...)`.
setupGitIdentity_setName ==
    /\ pc = "setupGitIdentity_setName"
    /\ \E outcome \in ChildOutcomes :
         /\ setGitConfig("user.name", identity.username, call.scope, outcome)
         /\ IF SetGitConfigThrows(outcome)
            THEN ret' = Throw(SetError("user.name")) /\ pc' = ThrowPc
            ELSE ret' = ret /\ pc' = "setupGitIdentity_setEmail"
    /\ UNCHANGED <<gitInstalled, inRepo, ghInstalled, ghAuthed, ghAccount, credHelper,
                   entry, config, cliArgs, env, call, loginOpts, loginArgs, child, authenticated,
                   loginSuccess, setupGitSuccess, qUser, qEmail, identity, exitCode, store0,
                   prev, ncalls>>

\* setupGitIdentity: `await setGitConfig('user.email', email, ...)`, then return.
setupGitIdentity_setEmail ==
    /\ pc = "setupGitIdentity_setEmail"
    /\ \E outcome \in ChildOutcomes :
         /\ setGitConfig("user.email", identity.email, call.scope, outcome)
         /\ IF SetGitConfigThrows(outcome)
            THEN ret' = Throw(SetError("user.email")) /\ pc' = ThrowPc
            ELSE ret' = Value(identity) /\ pc' = ReturnPc("setupGitIdentity")
    /\ UNCHANGED <<gitInstalled, inRepo, ghInstalled, ghAuthed, ghAccount, credHelper,
                   entry, config, cliArgs, env, call, loginOpts, loginArgs, child, authenticated,
                   loginSuccess, setupGitSuccess, qUser, qEmail, identity, exitCode, store0,
                   prev, ncalls>>

\* verifyGitIdentity: `await getGitConfig('user.name', ...)`.
verifyGitIdentity_getName ==
    /\ pc = "verifyGitIdentity"
    /\ \E outcome \in ChildOutcomes :
         \E raw \in GitReadStdouts(outcome, ScopeFlag(call.scope), "user.name") :
            /\ getGitConfig("user.name", call.scope, outcome, raw)
            /\ identity' = [identity EXCEPT !.username = GetGitConfigValue(outcome, raw)]
    /\ pc' = "verifyGitIdentity_getEmail"
    /\ UNCHANGED <<worldVars, entry, config, cliArgs, env, call, ret, loginOpts, loginArgs, child,
                   authenticated, loginSuccess, setupGitSuccess, qUser, qEmail, exitCode,
                   store0, prev, ncalls>>

\* verifyGitIdentity: `await getGitConfig('user.email', ...)`, then return both.
verifyGitIdentity_getEmail ==
    /\ pc = "verifyGitIdentity_getEmail"
    /\ \E outcome \in ChildOutcomes :
         \E raw \in GitReadStdouts(outcome, ScopeFlag(call.scope), "user.email") :
            /\ getGitConfig("user.email", call.scope, outcome, raw)
            /\ identity' = [identity EXCEPT !.email = GetGitConfigValue(outcome, raw)]
    /\ ret' = Value(identity')
    /\ pc' = ReturnPc("verifyGitIdentity")
    /\ UNCHANGED <<worldVars, entry, config, cliArgs, env, call, loginOpts, loginArgs, child,
                   authenticated, loginSuccess, setupGitSuccess, qUser, qEmail, exitCode,
                   store0, prev, ncalls>>

----------------------------------------------------------------------------
(* A client of the library: one call after the other *)

\* The write call that has just returned normally, if the last call was one.
JustWrote ==
    IF ret.kind = "value" /\ call.fn = "setGitConfig"
    THEN [fn |-> call.fn, key |-> call.key, value |-> call.value, scope |-> call.scope,
          identity |-> NoIdentity, outcome |-> lastOutcome]
    ELSE IF ret.kind = "value" /\ call.fn = "setupGitIdentity" /\ ~call.dryRun
    THEN [fn |-> call.fn, key |-> "none", value |-> <<>>, scope |-> call.scope,
          identity |-> ret.val, outcome |-> lastOutcome]
    ELSE NoPrev

\* The client starts a call: the per-call record starts afresh.
ClientCall(fn, key, value, scope, dryRun) ==
    /\ entry = "lib"
    /\ pc = "idle"
    /\ ncalls < MaxCalls
    /\ ncalls' = ncalls + 1
    /\ prev' = JustWrote
    /\ call' = [fn |-> fn, key |-> key, value |-> value, scope |-> scope, dryRun |-> dryRun]
    /\ pc' = fn
    /\ ret' = NoRet
    /\ qUser' = NoQuery
    /\ qEmail' = NoQuery
    /\ identity' = NoIdentity
    /\ log' = <<>>
    /\ lastOutcome' = NoOutcome
    /\ runnerResult' = NoResult
    /\ store0' = gitStore
    /\ UNCHANGED <<worldVars, entry, config, cliArgs, env, loginOpts, loginArgs, child, authenticated,
                   loginSuccess, setupGitSuccess, exitCode>>

Call_setGitConfig ==
    \E key \in Keys, value \in Strings, scope \in Scopes :
        ClientCall("setGitConfig", key, value, scope, FALSE)

Call_getGitConfig ==
    \E key \in Keys, scope \in Scopes :
        ClientCall("getGitConfig", key, <<>>, scope, FALSE)

Call_setupGitIdentity ==
    \E scope \in Scopes, dryRun \in BOOLEAN :
        ClientCall("setupGitIdentity", "none", <<>>, scope, dryRun)

Call_verifyGitIdentity ==
    \E scope \in Scopes :
        ClientCall("verifyGitIdentity", "none", <<>>, scope, FALSE)

Call_getGitHubUserInfo ==
    ClientCall("getGitHubUserInfo", "none", <<>>, "none", FALSE)

\* Values found in the store before the program runs.
OldValues == {<<"a", "a", "a">>}
InitStores == [Scopes -> [Keys -> OldValues \cup {NULL}]]
\* The stores in which a scope has both keys set or none.
UniformStores ==
    {[s \in Scopes |-> [k \in Keys |-> v[s]]] : v \in [Scopes -> OldValues \cup {NULL}]}

\* Config Accessor alone: git in any condition, gh not involved.
ConfigInit ==
    /\ gitStore \in UniformStores
    /\ gitInstalled \in BOOLEAN
    /\ inRepo \in BOOLEAN
    /\ ghInstalled = TRUE
    /\ ghAuthed = TRUE
    /\ ghAccount = [login |-> <<"a">>, email |-> <<"a", "a">>]
    /\ credHelper = FALSE
    /\ cliArgs = NoArgs
    /\ env = NoEnv
    /\ config = ParseConfig(cliArgs, env)
    /\ ProgInit("lib", "idle")

ConfigNext ==
    \/ Call_setGitConfig
    \/ Call_getGitConfig
    \/ setGitConfig_call
    \/ getGitConfig_call

ConfigSpec == ConfigInit /\ [][ConfigNext]_vars

\* Identity fetcher and setup/verify orchestrator: gh and git in any condition.
LibInit ==
    /\ gitStore \in InitStores
    /\ gitInstalled \in BOOLEAN
    /\ inRepo \in BOOLEAN
    /\ ghInstalled \in BOOLEAN
    /\ ghAuthed \in BOOLEAN
    /\ ghAccount \in GhAccounts
    /\ credHelper = FALSE
    /\ cliArgs = NoArgs
    /\ env = NoEnv
    /\ config = ParseConfig(cliArgs, env)
    /\ ProgInit("lib", "idle")

LibNext ==
    \/ Call_setupGitIdentity
    \/ Call_verifyGitIdentity
    \/ Call_getGitHubUserInfo
    \/ getGitHubUserInfo_spawn
    \/ getGitHubUsername_settle
    \/ getGitHubEmail_settle
    \/ setupGitIdentity_setName
    \/ setupGitIdentity_setEmail
    \/ verifyGitIdentity_getName
    \/ verifyGitIdentity_getEmail

LibSpec == LibInit /\ [][LibNext]_vars

----------------------------------------------------------------------------
(* Claims about the config accessor and the setup/verify orchestrator *)

Returned(fn) == call.fn = fn /\ pc = "idle" /\ ret.kind = "value"

IsText(v) == v # NULL /\ \A i \in 1..Len(v) : v[i] \in Chars

\* C3: setupGitIdentity with dryRun = true issues no git config write, so both
\* keys of both scopes keep the value (or the absence) they had before the
\* call, and what it returns is the identity the two queries fetched.
C3_DryRunWritesNothing ==
    (call.fn = "setupGitIdentity" /\ call.dryRun) =>
        /\ gitStore = store0
        /\ ~Contains(log, GitSetCmd("user.name"))
        /\ ~Contains(log, GitSetCmd("user.email"))
        /\ pc \notin {"setupGitIdentity_setName", "setupGitIdentity_setEmail"}
        /\ Returned("setupGitIdentity") =>
              /\ qUser.st = "ok" /\ qEmail.st = "ok"
              /\ ret.val = [username |-> qUser.out, email |-> qEmail.out]
              /\ (qUser.outcome = "exit0" /\ qEmail.outcome = "exit0")
                    => ret.val = [username |-> ghAccount.login, email |-> ghAccount.email]

\* C3 witness: a dry run returned the account's identity over a store in which
\* one key was set to something else and the other was unset.
C3_Witness ==
    /\ Returned("setupGitIdentity") /\ call.dryRun
    /\ ret.val = [username |-> ghAccount.login, email |-> ghAccount.email]
    /\ store0[call.scope]["user.name"] \in OldValues
    /\ store0[call.scope]["user.email"] = NULL
    /\ gitStore = store0

\* C4: verifyGitIdentity called right after a non-dry-run setupGitIdentity
\* returned, for the same scope, returns the {username, email} that call returned.
C4_VerifyReflectsSetup ==
    (Returned("verifyGitIdentity") /\ prev.fn = "setupGitIdentity"
        /\ prev.scope = call.scope)
        => ret.val = prev.identity

\* C5: getGitConfig called right after setGitConfig succeeded (its git exited
\* 0), for the same key and scope and with git exiting 0 again, returns the
\* value that was set.
C5_RoundTrip ==
    (Returned("getGitConfig") /\ prev.fn = "setGitConfig"
        /\ prev.key = call.key /\ prev.scope = call.scope
        /\ prev.outcome = "exit0" /\ lastOutcome = "exit0")
        => ret.val = prev.value

----------------------------------------------------------------------------
(* CLI Entry Point: makeConfig's validation, main and runVerify *)

\* The external commands as the log names them.
Commands ==
    {"gh auth status", "gh auth login", "gh auth setup-git", "gh api user",
     "gh api user/emails"} \cup {GitSetCmd(k) : k \in Keys} \cup {GitGetCmd(k) : k \in Keys}

\* Mutant: the two exclusions are not checked.
CheckError_Never(argv) == "none"

\* makeConfig's .check: the error it throws, "none" when it returns true.
CheckError(argv) ==
    IF argv.global /\ argv.local
    THEN "Arguments global and local are mutually exclusive"
    ELSE IF argv.web /\ argv.withToken
    THEN "Arguments web and with-token are mutually exclusive"
    ELSE "none"

\* Mutant: the scope is global whatever the options.
MainScope_AlwaysGlobal(local) == "global"

\* `const scope = config.local ? 'local' : 'global'`
MainScope(local) == IF local THEN "local" ELSE "global"

\* Mutant: only --repair disables the automatic login.
SkipAutoLogin_RepairOnly(cfg) == cfg.repair

\* `const skipAutoLogin = config.repair || config.noAutoLogin`
SkipAutoLogin(cfg) == cfg.repair \/ cfg.noAutoLogin

\* The first of the login methods main lists.
ManualLoginCommand ==
    "  gh auth login -h <hostname> -s <scopes> --git-protocol <protocol> --web"

\* Mutant: the no-auto-login wording is printed in repair mode too.
NotAuthenticatedLines_OneWording(cfg) ==
    <<"GitHub CLI is not authenticated.",
      "Automatic login is disabled (--no-auto-login).",
      "Please authenticate manually using one of these methods:",
      ManualLoginCommand>>

\* What main prints to stderr when not authenticated and skipAutoLogin.
NotAuthenticatedLines(cfg) ==
    <<"GitHub CLI is not authenticated.">>
    \o (IF cfg.repair
        THEN <<"The --repair option requires existing authentication.",
               "Please authenticate first using one of these methods:">>
        ELSE <<"Automatic login is disabled (--no-auto-login).",
               "Please authenticate manually using one of these methods:">>)
    \o <<ManualLoginCommand>>

\* Mutant: the advisory is printed in token mode too.
StartingLoginLines_AlwaysAdvises(cfg) ==
    <<"GitHub CLI is not authenticated. Starting authentication...",
      "Note: GitHub limits OAuth tokens to 10 per user/application.">>

\* What main prints before it starts the login.
StartingLoginLines(cfg) ==
    <<"GitHub CLI is not authenticated. Starting authentication...">>
    \o (IF ~cfg.withToken
        THEN <<"Note: GitHub limits OAuth tokens to 10 per user/application.">>
        ELSE <<>>)

\* `const authOptions = {hostname: config.hostname, ...}`: every field is given.
authOptions(cfg) ==
    [hostname |-> cfg.hostname, scopes |-> cfg.scopes, gitProtocol |-> cfg.gitProtocol,
     web |-> cfg.web, withToken |-> cfg.withToken, skipSshKey |-> cfg.skipSshKey,
     insecureStorage |-> cfg.insecureStorage, clipboard |-> cfg.clipboard,
     given |-> AuthFields]

\* Mutant: a failed login is tried again.
AfterLoginPc_Retries(success) == IF ~success THEN "runGhAuthLogin" ELSE "runGhAuthSetupGit"

\* Mutant: the result of the login is not looked at.
AfterLoginPc_IgnoresFailure(success) == "runGhAuthSetupGit"

\* Mutant: the credential helper is not set up after a login.
AfterLoginPc_SkipsSetupGit(success) == IF ~success THEN "exited" ELSE "main_options"

\* Where main goes when the login returned: `if (!loginSuccess) process.exit(1)`,
\* else on to runGhAuthSetupGit.
AfterLoginPc(success) == IF ~success THEN "exited" ELSE "runGhAuthSetupGit"

\* Mutant: the failure is reported the same way in both branches.
SetupGitReport_AlwaysWarns(wasAuthenticated, success, verbose) ==
    IF ~success
    THEN <<"Warning: Failed to setup git credential helper. You may need to run manually:">>
    ELSE <<>>

\* What main prints when runGhAuthSetupGit returned: a warning after a login,
\* a note only if verbose when gh was authenticated already.
SetupGitReport(wasAuthenticated, success, verbose) ==
    IF ~wasAuthenticated
    THEN IF ~success
         THEN <<"Warning: Failed to setup git credential helper. You may need to run manually:">>
         ELSE <<>>
    ELSE IF ~success /\ verbose
         THEN <<"Note: Git credential helper may not be configured. Consider running:">>
         ELSE <<>>

\* JavaScript truthiness of a config value: null and '' are falsy.
Truthy(v) == v # NULL /\ v # <<>>

\* Mutant: the value line is printed whatever was read.
ShownValue_AlwaysValue(key, v) ==
    IF key = "user.name" THEN "user.name: <value>" ELSE "user.email: <value>"

\* runVerify's line for one key.
ShownValue(key, v) ==
    IF key = "user.name"
    THEN IF Truthy(v) THEN "user.name: <value>" ELSE "user.name: (not set)"
    ELSE IF Truthy(v) THEN "user.email: <value>" ELSE "user.email: (not set)"

MainCall(fn, scope, dryRun) ==
    /\ call' = [fn |-> fn, key |-> "none", value |-> <<>>, scope |-> scope, dryRun |-> dryRun]
    /\ pc' = fn

\* What no step of main or runVerify touches itself.
mainFrame == <<worldVars, entry, config, cliArgs, env, loginArgs, child, authenticated, loginSuccess,
               setupGitSuccess, qUser, qEmail, identity, store0, prev, ncalls>>

\* makeConfig: the arguments are parsed, then checked; a failed check ends the
\* process with the error before main is reached.
makeConfig ==
    /\ pc = "makeConfig"
    /\ LET error == CheckError(config)
       IN IF error # "none"
          THEN /\ log' = Append(log, error)
               /\ exitCode' = Exit(1)
               /\ pc' = "exited"
          ELSE /\ pc' = "main"
               /\ UNCHANGED <<log, exitCode>>
    /\ UNCHANGED <<mainFrame, call, ret, loginOpts, lastOutcome, runnerResult>>

\* main: determine the scope, then verify mode or the auth check.
main ==
    /\ pc = "main"
    /\ IF config.verify
       THEN MainCall("runVerify", MainScope(config.local), FALSE)
       ELSE MainCall("isGhAuthenticated", MainScope(config.local), FALSE)
    /\ UNCHANGED <<mainFrame, ret, loginOpts, log, lastOutcome, runnerResult, exitCode>>

\* runVerify: show `gh auth status` with inherited stdio, however it ends, then
\* call verifyGitIdentity.
runVerify_status ==
    /\ pc = "runVerify"
    /\ \E outcome \in GhStatusOutcomes : lastOutcome' = outcome
    /\ UNCHANGED runnerResult
    /\ log' = log \o <<"Verifying git identity configuration...", "gh auth status">>
    /\ MainCall("verifyGitIdentity", call.scope, FALSE)
    /\ UNCHANGED <<mainFrame, ret, loginOpts, exitCode>>

\* runVerify after verifyGitIdentity: print each value or '(not set)'.
runVerify_print ==
    /\ pc = "runVerify_done"
    /\ log' = log \o <<ShownValue("user.name", ret.val.username),
                       ShownValue("user.email", ret.val.email),
                       "Verification complete!">>
    /\ pc' = "main_verified"
    /\ UNCHANGED <<mainFrame, call, ret, loginOpts, lastOutcome, runnerResult, exitCode>>

\* main: `process.exit(0)` after runVerify.
main_verified ==
    /\ pc = "main_verified"
    /\ exitCode' = Exit(0)
    /\ pc' = "exited"
    /\ UNCHANGED <<mainFrame, call, ret, loginOpts, log, lastOutcome, runnerResult>>

\* main after the auth check: instructions and exit 1, or the login, or
\* setup-git when gh is authenticated already.
main_authChecked ==
    /\ pc = "main_authChecked"
    /\ IF ~authenticated /\ SkipAutoLogin(config)
       THEN /\ log' = log \o NotAuthenticatedLines(config)
            /\ exitCode' = Exit(1)
            /\ pc' = "exited"
            /\ UNCHANGED <<call, loginOpts>>
       ELSE IF ~authenticated
       THEN /\ log' = log \o StartingLoginLines(config)
            /\ loginOpts' = authOptions(config)
            /\ MainCall("runGhAuthLogin", call.scope, FALSE)
            /\ UNCHANGED exitCode
       ELSE /\ MainCall("runGhAuthSetupGit", call.scope, FALSE)
            /\ UNCHANGED <<log, loginOpts, exitCode>>
    /\ UNCHANGED <<mainFrame, ret, lastOutcome, runnerResult>>

\* main after the login: failure message and exit 1, or setup-git.
main_loginDone ==
    /\ pc = "main_loginDone"
    /\ IF AfterLoginPc(loginSuccess) = "exited"
       THEN /\ log' = Append(log, "Authentication failed. Please try running manually:")
            /\ exitCode' = Exit(1)
            /\ pc' = "exited"
            /\ UNCHANGED call
       ELSE /\ MainCall(AfterLoginPc(loginSuccess), call.scope, FALSE)
            /\ UNCHANGED <<log, exitCode>>
    /\ UNCHANGED <<mainFrame, ret, loginOpts, lastOutcome, runnerResult>>

\* main after setup-git, in either branch: report a failure, go on.
main_setupGitDone ==
    /\ pc = "main_setupGitDone"
    /\ log' = log \o SetupGitReport(authenticated, setupGitSuccess, config.verbose)
    /\ pc' = "main_options"
    /\ UNCHANGED <<mainFrame, call, ret, loginOpts, lastOutcome, runnerResult, exitCode>>

\* main: prepare the options, announce them, call setupGitIdentity.
main_options ==
    /\ pc = "main_options"
    /\ log' = log \o (IF config.verbose THEN <<"Options:">> ELSE <<>>)
                  \o (IF config.dryRun
                      THEN <<"DRY MODE - No actual changes will be made">> ELSE <<>>)
    /\ MainCall("setupGitIdentity", call.scope, config.dryRun)
    /\ UNCHANGED <<mainFrame, ret, loginOpts, lastOutcome, runnerResult, exitCode>>

\* main after setupGitIdentity returned: display the result, exit 0.
main_identityDone ==
    /\ pc = "main_identityDone"
    /\ log' = log \o (IF call.dryRun
                      THEN <<"[DRY MODE] Would configure:">>
                      ELSE <<"Git configured:", "Git identity setup complete!">>)
    /\ exitCode' = Exit(0)
    /\ pc' = "exited"
    /\ UNCHANGED <<mainFrame, call, ret, loginOpts, lastOutcome, runnerResult>>

\* main's catch block: print the error, exit 1.
main_catch ==
    /\ pc = "main_catch"
    /\ log' = log \o <<"Error:", ret.val>>
                  \o (IF config.verbose THEN <<"Stack trace:">> ELSE <<>>)
    /\ exitCode' = Exit(1)
    /\ pc' = "exited"
    /\ UNCHANGED <<mainFrame, call, ret, loginOpts, lastOutcome, runnerResult>>

----------------------------------------------------------------------------
(* One invocation of the CLI *)

\* The boolean options an invocation may set away from their defaults.
CliFlags == {"global", "local", "verbose", "dryRun", "verify", "repair", "noAutoLogin",
             "web", "withToken", "clipboard"}

Flip(cfg, flags) == [f \in DOMAIN cfg |-> IF f \in flags THEN ~cfg[f] ELSE cfg[f]]

\* The parsed configurations of invocations that set at most MaxFlags options.
CliConfigs ==
    {Flip(DefaultConfig, flags) : flags \in {F \in SUBSET CliFlags : Cardinality(F) <= MaxFlags}}

\* The command lines that give at most MaxFlags of the boolean options, each
\* with the value that is not its default.
CliArgvs ==
    {[f \in flags |-> ~DefaultConfig[f]] :
        flags \in {F \in SUBSET CliFlags : Cardinality(F) <= MaxFlags}}

\* git runs; each scope holds an identity already or none.
Init ==
    /\ gitStore \in UniformStores
    /\ gitInstalled = TRUE
    /\ inRepo \in BOOLEAN
    /\ ghInstalled \in BOOLEAN
    /\ ghAuthed \in BOOLEAN
    /\ ghAuthed => ghInstalled
    /\ ghAccount \in GhAccounts
    /\ credHelper = FALSE
    /\ cliArgs \in CliArgvs
    /\ env = NoEnv
    /\ config = ParseConfig(cliArgs, env)
    /\ ProgInit("cli", "makeConfig")

Next ==
    \/ makeConfig
    \/ main
    \/ runVerify_status
    \/ verifyGitIdentity_getName
    \/ verifyGitIdentity_getEmail
    \/ runVerify_print
    \/ main_verified
    \/ isGhAuthenticated
    \/ main_authChecked
    \/ runGhAuthLogin_spawn
    \/ runGhAuthLogin_settle
    \/ main_loginDone
    \/ runGhAuthSetupGit
    \/ main_setupGitDone
    \/ main_options
    \/ getGitHubUserInfo_spawn
    \/ getGitHubUsername_settle
    \/ getGitHubEmail_settle
    \/ setupGitIdentity_setName
    \/ setupGitIdentity_setEmail
    \/ main_identityDone
    \/ main_catch

Spec == Init /\ [][Next]_vars

\* The environment variables the options read.
EnvVars == {EnvVar(option) : option \in DOMAIN DefaultConfig} \ {"none"}

\* The option that reads a variable.
OptionOf(var) == CHOOSE option \in DOMAIN DefaultConfig : EnvVar(option) = var

\* A value given to an option on the command line: for a boolean option
\* --option or --no-option, for a string option its default or another value.
FlagValue(option, b) ==
    CASE option = "hostname"    -> IF b THEN "ghe.example.com" ELSE defaultAuthOptions.hostname
      [] option = "scopes"      -> IF b THEN "repo,gist" ELSE defaultAuthOptions.scopes
      [] option = "gitProtocol" -> IF b THEN "ssh" ELSE defaultAuthOptions.gitProtocol
      [] OTHER                  -> b

\* A value an environment variable is set to.
EnvValue(option, b) ==
    CASE option = "hostname"    -> IF b THEN "github.example.org" ELSE defaultAuthOptions.hostname
      [] option = "scopes"      -> IF b THEN "repo" ELSE defaultAuthOptions.scopes
      [] option = "gitProtocol" -> IF b THEN "ssh" ELSE defaultAuthOptions.gitProtocol
      [] OTHER                  -> b

\* An invocation with options on the command line and variables in the
\* environment, at most MaxGiven of them together; gh has no session yet.
EnvInit ==
    /\ gitStore = EmptyStore
    /\ gitInstalled = TRUE
    /\ inRepo = TRUE
    /\ ghInstalled = TRUE
    /\ ghAuthed = FALSE
    /\ ghAccount = [login |-> <<"a">>, email |-> <<"a", "a">>]
    /\ credHelper = FALSE
    /\ \E F \in {X \in SUBSET DOMAIN DefaultConfig : Cardinality(X) <= MaxGiven} :
          \E V \in {Y \in SUBSET EnvVars : Cardinality(Y) <= MaxGiven - Cardinality(F)} :
             \E b \in [F -> BOOLEAN], c \in [V -> BOOLEAN] :
                /\ cliArgs = [f \in F |-> FlagValue(f, b[f])]
                /\ env = [v \in V |-> EnvValue(OptionOf(v), c[v])]
    /\ config = ParseConfig(cliArgs, env)
    /\ ProgInit("cli", "makeConfig")

\* The invocation is followed until the login has returned.
EnvNext ==
    \/ makeConfig
    \/ main
    \/ isGhAuthenticated
    \/ main_authChecked
    \/ runGhAuthLogin_spawn
    \/ runGhAuthLogin_settle
    \/ main_loginDone

EnvSpec == EnvInit /\ [][EnvNext]_vars

----------------------------------------------------------------------------
(* Claims about one CLI invocation *)

\* The external commands of the invocation so far, in order.
CommandsRun == SelectSeq(log, LAMBDA e : e \in Commands)

Count(seq, x) == Cardinality({i \in 1..Len(seq) : seq[i] = x})

\* Every x of seq comes after some y of seq.
After(seq, x, y) ==
    \A i \in 1..Len(seq) : seq[i] = x => \E j \in 1..(i - 1) : seq[j] = y

\* main's auth check has returned this answer.
AuthCheckSaid(answer) ==
    /\ entry = "cli" /\ ~config.verify
    /\ Contains(log, "gh auth status")
    /\ authenticated = answer

\* main's login has returned this answer.
LoginSaid(answer) ==
    /\ entry = "cli"
    /\ Contains(log, "gh auth login") /\ pc # "runGhAuthLogin_await"
    /\ loginSuccess = answer

ExclusiveFlags == (config.global /\ config.local) \/ (config.web /\ config.withToken)

C8_NoAutoLoginExits ==
    (AuthCheckSaid(FALSE) /\ config.noAutoLogin) =>
        /\ CommandsRun = <<"gh auth status">>
        /\ gitStore = store0 /\ ~credHelper
        /\ pc \in {"main_authChecked", "exited"}
        /\ pc = "exited" =>
              /\ exitCode = Exit(1)
              /\ Contains(log, "GitHub CLI is not authenticated.")
              /\ Contains(log, ManualLoginCommand)
              /\ ~config.repair =>
                    Contains(log, "Automatic login is disabled (--no-auto-login).")

\* C8 witness: --no-auto-login without --repair, gh had no session, exit 1.
C8_Witness ==
    /\ AuthCheckSaid(FALSE) /\ config.noAutoLogin /\ ~config.repair
    /\ ~ghAuthed /\ ghInstalled
    /\ pc = "exited" /\ exitCode = Exit(1)
    /\ Contains(log, "Please authenticate manually using one of these methods:")

LoginSucceeded ==
    /\ AuthCheckSaid(FALSE) /\ ~config.repair /\ ~config.noAutoLogin
    /\ LoginSaid(TRUE)

\* The order C10 asks for: after a failed auth check setup-git is run only
\* once the login has returned true, at most once; the identity queries are
\* issued only once setup-git has returned; and an invocation that ends after
\* a successful login has run setup-git exactly once and then identity setup.
LoginThenSetupGitThenIdentity ==
    /\ (AuthCheckSaid(FALSE) /\ (pc = "runGhAuthSetupGit" \/ Contains(log, "gh auth setup-git")))
          => LoginSaid(TRUE) /\ After(log, "gh auth setup-git", "gh auth login")
    /\ LoginSucceeded =>
          /\ Count(log, "gh auth setup-git") <= 1
          /\ Count(log, "gh auth login") = 1
          /\ (pc = "setupGitIdentity" \/ Contains(log, "gh api user")) =>
                /\ Count(log, "gh auth setup-git") = 1
                /\ After(log, "gh api user", "gh auth setup-git")
          /\ pc = "exited" =>
                /\ Count(log, "gh auth setup-git") = 1
                /\ Contains(log, "gh api user")

\* C10 as stated: in that order, and the process exits 0.
C10_LoginThenSetupExitsZero ==
    /\ LoginThenSetupGitThenIdentity
    /\ (LoginSucceeded /\ pc = "exited") => exitCode = Exit(0)

\* C10 amended: in that order, and the process exits 0 if setupGitIdentity
\* returned, 1 if it threw.
C10_LoginThenSetup ==
    /\ LoginThenSetupGitThenIdentity
    /\ (LoginSucceeded /\ pc = "exited") =>
          /\ call.fn = "setupGitIdentity"
          /\ ret.kind = "value" => exitCode = Exit(0)
          /\ ret.kind = "throw" => exitCode = Exit(1)
          /\ ret.kind \in {"value", "throw"}

\* C10 witness: no session at start, the login succeeded, and the invocation
\* ran setup-git, the queries and both writes in that order and exited 0.
C10_Witness ==
    /\ LoginSucceeded /\ pc = "exited" /\ exitCode = Exit(0)
    /\ CommandsRun = <<"gh auth status", "gh auth login", "gh auth setup-git",
                       "gh api user", "gh api user/emails",
                       GitSetCmd("user.name"), GitSetCmd("user.email")>>
    /\ gitStore["global"] = [k \in Keys |-> IF k = "user.name" THEN ghAccount.login
                                            ELSE ghAccount.email]

----------------------------------------------------------------------------
(* Claims about verify mode and the failure paths of the CLI *)

\* seq is a prefix of full.
IsPrefix(seq, full) ==
    /\ Len(seq) <= Len(full)
    /\ \A i \in 1..Len(seq) : seq[i] = full[i]

\* An invocation that passed makeConfig's check and runs in verify mode.
VerifyMode == entry = "cli" /\ config.verify /\ pc # "makeConfig" /\ ~ExclusiveFlags

VerifyCommands == <<"gh auth status", GitGetCmd("user.name"), GitGetCmd("user.email")>>

\* C11: a --verify invocation runs the auth status display, then the reads of
\* user.name and user.email of the selected scope, and nothing else: no login,
\* no setup-git, no identity query, no config write; it exits 0, having
\* printed '(not set)' for each key that is absent from that scope and the
\* value line for each non-blank value that git printed; whether gh has a
\* session or can be started makes no difference.
C11_VerifyOnlyReads ==
    VerifyMode =>
        /\ IsPrefix(CommandsRun, VerifyCommands)
        /\ gitStore = store0 /\ ~credHelper /\ loginArgs = <<>>
        /\ authenticated = Unknown
        /\ pc \notin {"main", "makeConfig"} => call.scope = MainScope(config.local)
        /\ pc = "exited" =>
              /\ exitCode = Exit(0)
              /\ CommandsRun = VerifyCommands
              /\ After(log, GitGetCmd("user.email"), GitGetCmd("user.name"))
              /\ Contains(log, IF Truthy(ret.val.username) THEN "user.name: <value>"
                                ELSE "user.name: (not set)")
              /\ Contains(log, IF Truthy(ret.val.email) THEN "user.email: <value>"
                                ELSE "user.email: (not set)")
              /\ gitStore[call.scope]["user.name"] = NULL
                    => ret.val.username \in {NULL, <<>>}
                       /\ Contains(log, "user.name: (not set)")
              /\ gitStore[call.scope]["user.email"] = NULL
                    => ret.val.email \in {NULL, <<>>}
                       /\ Contains(log, "user.email: (not set)")
              /\ lastOutcome = "exit0" => Contains(log, "user.email: <value>")
              /\ Contains(log, "Verification complete!")

\* C11 witness: --verify --local in a repository whose local scope holds
\* neither key, with no gh to start: both '(not set)' lines, exit 0.
C11_Witness ==
    /\ VerifyMode /\ config.local /\ inRepo /\ ~ghInstalled
    /\ pc = "exited" /\ exitCode = Exit(0)
    /\ gitStore["local"]["user.name"] = NULL
    /\ Contains(log, "user.name: (not set)") /\ Contains(log, "user.email: (not set)")
    /\ lastOutcome = "exit1"

\* C12: once the login the CLI ran has returned false, the invocation prints
\* the manual login command and exits 1; the only commands it ever ran are the
\* auth check and the login: no setup-git, no identity query, no config write.
C12_LoginFailureExits ==
    LoginSaid(FALSE) =>
        /\ CommandsRun = <<"gh auth status", "gh auth login">>
        /\ gitStore = store0 /\ ~credHelper
        /\ setupGitSuccess = Unknown
        /\ pc \in {"main_loginDone", "exited"}
        /\ pc = "exited" =>
              /\ exitCode = Exit(1)
              /\ Contains(log, "Authentication failed. Please try running manually:")

\* C12 witness: the login exited non-zero and the invocation ended with 1.
C12_Witness ==
    /\ LoginSaid(FALSE) /\ lastOutcome = "exit1"
    /\ pc = "exited" /\ exitCode = Exit(1)
    /\ log[Len(log)] = "Authentication failed. Please try running manually:"

\* main's setup-git step has returned this answer.
SetupGitSaid(answer) ==
    /\ entry = "cli"
    /\ Contains(log, "gh auth setup-git")
    /\ setupGitSuccess = answer

SetupGitWarning ==
    "Warning: Failed to setup git credential helper. You may need to run manually:"
SetupGitNote ==
    "Note: Git credential helper may not be configured. Consider running:"

\* C13: once setup-git has returned false, in either branch, the invocation
\* does not end before setupGitIdentity was called, and its exit code is 0 if
\* setupGitIdentity returned and 1 if it threw; after a login the failure is
\* reported by a warning, and when gh was authenticated already it is
\* reported, by a note, if and only if verbose is set.
C13_SetupGitFailureGoesOn ==
    SetupGitSaid(FALSE) =>
        /\ pc = "exited" =>
              /\ call.fn = "setupGitIdentity"
              /\ Contains(log, "gh api user")
              /\ After(log, "gh api user", "gh auth setup-git")
              /\ ret.kind \in {"value", "throw"}
              /\ ret.kind = "value" <=> exitCode = Exit(0)
              /\ ret.kind = "throw" <=> exitCode = Exit(1)
        /\ pc # "main_setupGitDone" =>
              /\ authenticated =>
                    /\ Contains(log, SetupGitNote) <=> config.verbose
                    /\ ~Contains(log, SetupGitWarning)
              /\ ~authenticated =>
                    /\ Contains(log, SetupGitWarning)
                    /\ ~Contains(log, SetupGitNote)

\* C13 witness: gh was authenticated, setup-git failed, verbose is not set:
\* nothing was reported, identity setup wrote both keys and the exit code is 0.
C13_Witness ==
    /\ SetupGitSaid(FALSE) /\ authenticated /\ ~config.verbose
    /\ pc = "exited" /\ exitCode = Exit(0)
    /\ ~Contains(log, SetupGitNote)
    /\ Contains(log, GitSetCmd("user.email"))

----------------------------------------------------------------------------
(* Claims about the exit code the Command Runner resolves with *)

\* C14: isGhAuthenticated returns (it never throws), and what it returns is
\* true if `gh auth status` exited with code 0 and false in every other case:
\* it exited non-zero, it could not be started, or it ended without an exit
\* code.
C14_AuthenticatedIffExitZero ==
    (entry = "cli" /\ pc = "main_authChecked") =>
        /\ ret.kind = "value"
        /\ ret.val \in BOOLEAN
        /\ ret.val <=> lastOutcome = "exit0"
        /\ authenticated = ret.val

\* C15: runGhAuthLogin returns true only if the `gh auth login` child exited
\* with code 0; a child that could not be started, exited non-zero or ended
\* without an exit code yields false.
C15_LoginTrueOnlyIfExitZero ==
    (call.fn = "runGhAuthLogin" /\ pc = "idle") =>
        /\ ret.kind = "value"
        /\ ret.val \in BOOLEAN
        /\ ret.val => lastOutcome = "exit0"
        /\ lastOutcome \in {"error", "exit1", "signal"} => ~ret.val

\* C16: when the child could not be started the runner's promise resolves, it
\* does not reject: execCommand's result has exitCode 1 and error.message as
\* stderr, execInteractiveCommand's result has exitCode 1; the caller goes on
\* with that result (the auth check and the login return false) and the
\* process has not been ended by it.
C16_RunnerResolvesOnSpawnError ==
    (lastOutcome = "error" /\ "exitCode" \in DOMAIN runnerResult) =>
        /\ runnerResult.exitCode = 1
        /\ "stderr" \in DOMAIN runnerResult => runnerResult.stderr = SpawnErrorMessage
        /\ DOMAIN runnerResult \in {{"exitCode"}, {"stdout", "stderr", "exitCode"}}
        /\ (entry = "cli" /\ pc \in {"main_authChecked", "main_loginDone"}) =>
              /\ ret = Value(FALSE)
              /\ exitCode = NoExit
        /\ (entry = "lib" /\ pc = "idle") => ret.kind \in {"value", "throw"}

\* C16 witness: no gh to start: the auth check got exitCode 1 with the error
\* message, and then the login, its confirmation piped, got exitCode 1.
C16_Witness ==
    /\ entry = "cli" /\ ~ghInstalled
    /\ pc = "main_loginDone" /\ lastOutcome = "error"
    /\ CommandsRun = <<"gh auth status", "gh auth login">>
    /\ child.stdio = "pipe"
    /\ runnerResult = [exitCode |-> 1]
    /\ ret = Value(FALSE) /\ exitCode = NoExit

----------------------------------------------------------------------------
(* Claims about the Identity Fetcher *)

QueryErrors == {"Failed to get GitHub username", "Failed to get GitHub email",
                "No primary email found"}

\* A call that fetches the identity: getGitHubUserInfo itself or setupGitIdentity.
Fetching == entry = "lib" /\ call.fn \in {"getGitHubUserInfo", "setupGitIdentity"}

\* C17: getGitHubUserInfo starts both queries before either has ended; it
\* returns {username, email} only when both have succeeded, with what they
\* returned; it fails as soon as one query has failed, with that query's
\* error, whichever query ends first.
C17_BothQueriesJoined ==
    Fetching =>
        /\ (qUser.st # "idle" \/ qEmail.st # "idle") =>
              /\ qUser.st # "idle" /\ qEmail.st # "idle"
              /\ IsPrefix(<<"gh api user", "gh api user/emails">>, log)
        /\ pc = "getGitHubUserInfo_await" =>
              /\ "running" \in {qUser.st, qEmail.st}
              /\ "failed" \notin {qUser.st, qEmail.st}
              /\ ret = NoRet
        /\ (qUser.st = "ok" /\ qEmail.st = "ok") =>
              /\ pc # "getGitHubUserInfo_await"
              /\ identity = [username |-> qUser.out, email |-> qEmail.out]
              /\ call.fn = "getGitHubUserInfo" => ret = Value(identity) /\ pc = "idle"
        /\ ("failed" \in {qUser.st, qEmail.st}) =>
              /\ pc = "idle" /\ ret.kind = "throw"
              /\ ret.val \in {q.err : q \in {r \in {qUser, qEmail} : r.st = "failed"}}
        /\ (call.fn = "getGitHubUserInfo" /\ pc = "idle" /\ ret.kind = "value") =>
              qUser.st = "ok" /\ qEmail.st = "ok"
        /\ (pc = "idle" /\ ret.kind = "throw" /\ ret.val \in QueryErrors) =>
              "failed" \in {qUser.st, qEmail.st}

\* C17 witness: the email query has succeeded first and getGitHubUserInfo is
\* still waiting for the username query.
C17_Witness ==
    /\ entry = "lib" /\ call.fn = "getGitHubUserInfo"
    /\ pc = "getGitHubUserInfo_await"
    /\ qEmail.st = "ok" /\ qEmail.out = ghAccount.email
    /\ qUser.st = "running"
    /\ ret = NoRet

\* The email query has ended.
EmailQueryEnded == Fetching /\ qEmail.st \in {"ok", "failed"}

\* C18: getGitHubEmail never returns an empty email: a query that exited zero
\* with empty output throws 'No primary email found', a query that exited
\* non-zero or could not be started throws 'Failed to get GitHub email', and
\* no returned identity has an empty email.
C18_NoEmptyEmail ==
    /\ EmailQueryEnded =>
          /\ qEmail.st = "ok" => qEmail.out # <<>> /\ qEmail.out = ghAccount.email
          /\ (qEmail.outcome = "exit0" /\ ghAccount.email = <<>>) =>
                qEmail.st = "failed" /\ qEmail.err = "No primary email found"
          /\ qEmail.outcome \in {"exit1", "error"} =>
                qEmail.st = "failed" /\ qEmail.err = "Failed to get GitHub email"
          /\ qEmail.err = "No primary email found" =>
                qEmail.st = "failed" /\ qEmail.outcome \in {"exit0", "signal"}
    /\ (Fetching /\ pc = "idle" /\ ret.kind = "value") => ret.val.email # <<>>

\* C18 witness: the account has no primary email, the query exited zero and
\* the call has thrown 'No primary email found'.
C18_Witness ==
    /\ entry = "lib" /\ call.fn = "getGitHubUserInfo"
    /\ ghAccount.email = <<>>
    /\ qEmail.outcome = "exit0" /\ qEmail.st = "failed"
    /\ pc = "idle" /\ ret = Throw("No primary email found")

----------------------------------------------------------------------------
(* Claims about the Config Accessor's writes *)

\* C19: setGitConfig throws whenever the 'git config' write exited non-zero or
\* could not be started, and returns normally only when the write exited zero.
C19_SetThrowsUnlessExitZero ==
    (entry = "lib" /\ call.fn = "setGitConfig" /\ pc = "idle") =>
        /\ lastOutcome \in {"exit1", "error"} => ret = Throw(SetError(call.key))
        /\ ret.kind = "value" => lastOutcome = "exit0"

----------------------------------------------------------------------------
(* Claims about how an invocation of the CLI ends *)

\* The errors the library throws into main.
ThrownErrors == QueryErrors \cup {SetError(k) : k \in Keys}

\* The last lines of error output are the caught error's.
ErrorPrinted(message) ==
    LET n == Len(log)
    IN IF config.verbose
       THEN n >= 3 /\ log[n-2] = "Error:" /\ log[n-1] = message /\ log[n] = "Stack trace:"
       ELSE n >= 2 /\ log[n-1] = "Error:" /\ log[n] = message

----------------------------------------------------------------------------
(* Claims about the options of an invocation *)

\* The effective value of an option: the command line's, else the
\* environment variable's, else the built-in default.
Effective(option, var, default) ==
    config[option] = IF option \in DOMAIN cliArgs THEN cliArgs[option]
                     ELSE IF var \in DOMAIN env THEN env[var]
                     ELSE default

\* The login has been given its options.
LoginOptionsBuilt == entry = "cli" /\ Contains(log, "gh auth login")

\* C21: every AuthOptions field and local, verbose and dry-run have the value
\* given on the command line, else the value of the option's environment
\* variable, else the built-in default; the record the login was given holds
\* these values for as long as the invocation runs.
C21_FlagThenEnvThenDefault ==
    entry = "cli" =>
        /\ Effective("local", "GH_SETUP_GIT_IDENTITY_LOCAL", FALSE)
        /\ Effective("verbose", "GH_SETUP_GIT_IDENTITY_VERBOSE", FALSE)
        /\ Effective("dryRun", "GH_SETUP_GIT_IDENTITY_DRY_RUN", FALSE)
        /\ Effective("hostname", "GH_AUTH_HOSTNAME", "github.com")
        /\ Effective("scopes", "GH_AUTH_SCOPES", "repo,workflow,user,read:org,gist")
        /\ Effective("gitProtocol", "GH_AUTH_GIT_PROTOCOL", "https")
        /\ Effective("web", "GH_AUTH_WEB", TRUE)
        /\ Effective("withToken", "none", FALSE)
        /\ Effective("skipSshKey", "GH_AUTH_SKIP_SSH_KEY", FALSE)
        /\ Effective("insecureStorage", "GH_AUTH_INSECURE_STORAGE", FALSE)
        /\ Effective("clipboard", "GH_AUTH_CLIPBOARD", FALSE)
        /\ LoginOptionsBuilt => loginOpts # NoOptions
        /\ loginOpts # NoOptions => \A f \in AuthFields : loginOpts[f] = config[f]

\* C21 witness: the hostname is given on the command line and set to another
\* value in the environment, and the login has run with the command line's.
C21_Witness ==
    /\ LoginOptionsBuilt
    /\ "hostname" \in DOMAIN cliArgs /\ "GH_AUTH_HOSTNAME" \in DOMAIN env
    /\ cliArgs["hostname"] # env["GH_AUTH_HOSTNAME"]
    /\ loginOpts.hostname = cliArgs["hostname"]
    /\ pc = "exited"

\* --with-token is the only option on the command line and no variable is set.
TokenOnly ==
    /\ entry = "cli"
    /\ DOMAIN cliArgs = {"withToken"} /\ cliArgs["withToken"]
    /\ DOMAIN env = {}

\* C22: an invocation with --with-token alone passes the validation of the
\* options, and a login it starts runs in token mode: with --with-token and
\* without --web.
C22_TokenOnlyPasses ==
    (TokenOnly /\ pc # "makeConfig") =>
        /\ ~Contains(log, "Arguments web and with-token are mutually exclusive")
        /\ ~(pc = "exited" /\ CommandsRun = <<>>)
        /\ Contains(log, "gh auth login") =>
              Contains(loginArgs, "--with-token") /\ ~Contains(loginArgs, "--web")

\* C23: no step of an invocation with --dry-run changes git's config store,
\* gh's session or the credential helper.
C23_DryRunChangesNothing ==
    [][(entry = "cli" /\ config.dryRun) =>
          /\ gitStore' = gitStore
          /\ ghAuthed' = ghAuthed
          /\ credHelper' = credHelper]_vars

----------------------------------------------------------------------------
(* Claims about the order and the number of the commands of an invocation *)

\* The commands that change or query something beyond git's reads.
OnceCommands ==
    {"gh auth status", "gh auth login", "gh auth setup-git", "gh api user",
     "gh api user/emails", "git config set user.name", "git config set user.email"}

\* C24: within one invocation the auth status check, the login, setup-git,
\* the username query, the email query and the write of each of user.name and
\* user.email are each issued at most once, on every path.
C24_NothingRetried ==
    entry = "cli" => \A c \in OnceCommands : Count(log, c) <= 1

\* C24 witness: the write of user.name has failed and the invocation has ended
\* with every command before it issued once and user.email not written.
C24_Witness ==
    /\ entry = "cli" /\ pc = "exited"
    /\ ret = Throw("Failed to set git config user.name")
    /\ Count(log, "git config set user.name") = 1
    /\ Count(log, "git config set user.email") = 0
    /\ Count(log, "gh auth status") = 1
    /\ Count(log, "gh api user") = 1 /\ Count(log, "gh api user/emails") = 1

----------------------------------------------------------------------------
(* Claims about the input of the login process *)

\* runGhAuthLogin's `withToken` after the destructuring of its options.
TokenMode == IF "withToken" \in loginOpts.given THEN loginOpts.withToken ELSE FALSE

\* runGhAuthLogin has started the login process.
LoginStarted == Contains(log, "gh auth login")

\* C25: the login process gets "y\n" written to a piped input that is then
\* closed if and only if withToken is false; with withToken true nothing is
\* written and the process inherits the caller's standard input.
C25_ConfirmationUnlessTokenMode ==
    /\ (LoginStarted /\ ~TokenMode) =>
          child = [stdio |-> "pipe", written |-> "y\n", stdinEnded |-> TRUE]
    /\ (LoginStarted /\ TokenMode) =>
          child = [stdio |-> "inherit", written |-> "undefined", stdinEnded |-> FALSE]
    /\ ~LoginStarted => child = NoChild

\* C25 witness: a login in token mode has ended with exit code 0 on the
\* caller's standard input, nothing having been written to it.
C25_Witness ==
    /\ LoginStarted /\ TokenMode
    /\ child.stdio = "inherit" /\ child.written = "undefined"
    /\ Contains(loginArgs, "--with-token")
    /\ lastOutcome = "exit0" /\ ret = Value(TRUE)

----------------------------------------------------------------------------
(* Claims about the advisory printed before a login *)

TokenLimitAdvisory == "Note: GitHub limits OAuth tokens to 10 per user/application."

\* C26: the advisory about the limit of OAuth tokens is printed if and only if
\* the invocation is not in verify mode, the auth check has said not
\* authenticated, neither repair nor no-auto-login is set and with-token is
\* false; it is printed once, before the login command is run.
C26_AdvisoryBeforeLogin ==
    entry = "cli" =>
        /\ Contains(log, TokenLimitAdvisory) <=>
              /\ AuthCheckSaid(FALSE) /\ pc # "main_authChecked"
              /\ ~config.repair /\ ~config.noAutoLogin
              /\ ~config.withToken
        /\ Count(log, TokenLimitAdvisory) <= 1
        /\ Contains(log, TokenLimitAdvisory) => After(log, "gh auth login", TokenLimitAdvisory)
        /\ (Contains(log, "gh auth login") /\ ~config.withToken) =>
              Contains(log, TokenLimitAdvisory)

\* C26 witness: the advisory was printed and the login was run after it.
C26_Witness ==
    /\ entry = "cli" /\ pc = "exited"
    /\ Contains(log, TokenLimitAdvisory) /\ Contains(log, "gh auth login")
    /\ After(log, "gh auth login", TokenLimitAdvisory)
    /\ ~config.withToken /\ ~config.verify /\ ~config.repair /\ ~config.noAutoLogin

----------------------------------------------------------------------------
(* Claims about the scope of an invocation *)

OtherScope(scope) == IF scope = "local" THEN "global" ELSE "local"

\* C27: the scope of an invocation is local if local is set and global
\* otherwise; every library call of the invocation is given that scope, what
\* verify mode reads is that scope's value, and the other scope's user.name
\* and user.email are what they were when the invocation started.
C27_OneScopeOnly ==
    entry = "cli" =>
        LET scope == IF config.local THEN "local" ELSE "global"
        IN /\ call.fn # "none" => call.scope = scope
           /\ gitStore[OtherScope(scope)] = store0[OtherScope(scope)]
           /\ \A k \in Keys :
                 gitStore[scope][k] # store0[scope][k] =>
                    /\ Contains(log, IF k = "user.name" THEN "git config set user.name"
                                     ELSE "git config set user.email")
                    /\ ~config.dryRun
           /\ (config.verify /\ exitCode = Exit(0)) =>
                 /\ Truthy(ret.val.username) => ret.val.username = store0[scope]["user.name"]
                 /\ Truthy(ret.val.email) => ret.val.email = store0[scope]["user.email"]

\* C27 witness: an invocation with --local in a repository has changed the
\* local identity and exited 0; the global scope holds another identity still.
C27_Witness ==
    /\ entry = "cli" /\ pc = "exited" /\ exitCode = Exit(0)
    /\ config.local /\ ~config.dryRun /\ ~config.verify
    /\ gitStore["local"] # store0["local"]
    /\ gitStore["global"] = store0["global"]
    /\ store0["global"]["user.name"] # NULL
    /\ store0["local"]["user.name"] = NULL

----------------------------------------------------------------------------
(* Claims about the writes of setupGitIdentity *)

SetupWrites == entry = "lib" /\ call.fn = "setupGitIdentity" /\ ~call.dryRun

\* C28: setupGitIdentity without dry-run writes user.email only after the
\* write of user.name has succeeded; when the write of user.name fails the
\* error is thrown and user.email is left as it was; when a query fails
\* neither key is written.
C28_EmailAfterNameSucceeded ==
    SetupWrites =>
        /\ pc = "setupGitIdentity_setEmail" =>
              /\ lastOutcome = "exit0"
              /\ gitStore[call.scope]["user.name"] = identity.username
        /\ Contains(log, "git config set user.email") =>
              /\ Contains(log, "git config set user.name")
              /\ gitStore[call.scope]["user.name"] = identity.username
        /\ ret = Throw("Failed to set git config user.name") =>
              /\ ~Contains(log, "git config set user.email")
              /\ gitStore[call.scope]["user.email"] = store0[call.scope]["user.email"]
        /\ "failed" \in {qUser.st, qEmail.st} =>
              /\ gitStore = store0
              /\ ~Contains(log, "git config set user.name")
              /\ ~Contains(log, "git config set user.email")

----------------------------------------------------------------------------
(* Claims about what comes before a write in an invocation *)

IdentityWritten ==
    Contains(log, "git config set user.name") \/ Contains(log, "git config set user.email")

\* C29: in an invocation user.name or user.email is written only after the
\* auth check has returned true or the login has returned true, the login is
\* run only after the auth check has returned false, and the auth check
\* comes before every write and before the login.
C29_WritesAfterAuthentication ==
    entry = "cli" =>
        /\ IdentityWritten => (AuthCheckSaid(TRUE) \/ LoginSaid(TRUE))
        /\ Contains(log, "gh auth login") => AuthCheckSaid(FALSE)
        /\ After(log, "gh auth login", "gh auth status")
        /\ After(log, "git config set user.name", "gh auth status")
        /\ After(log, "git config set user.email", "gh auth status")
        /\ Contains(log, "gh auth login") =>
              /\ After(log, "git config set user.name", "gh auth login")
              /\ After(log, "git config set user.email", "gh auth login")

\* C29 witness: the auth check returned false, the login returned true and
\* both keys were written after it.
C29_Witness ==
    /\ entry = "cli" /\ pc = "exited" /\ exitCode = Exit(0)
    /\ AuthCheckSaid(FALSE) /\ LoginSaid(TRUE)
    /\ Contains(log, "git config set user.name")
    /\ Contains(log, "git config set user.email")
    /\ After(log, "git config set user.name", "gh auth login")

\* setupGitIdentity has returned to the client.
SetupReturned ==
    entry = "lib" /\ call.fn = "setupGitIdentity" /\ pc = "idle" /\ ret.kind = "value"

\* C30: when setupGitIdentity returns, with or without dry-run, the returned
\* {username, email} is what the two queries of that call returned, which is
\* the account's login and primary email when the queries exited zero; without
\* dry-run the only values written to user.name and user.email are these two,
\* and with dry-run nothing is written.
C30_WritesWhatTheQueriesReturned ==
    /\ SetupReturned =>
          /\ qUser.st = "ok" /\ qEmail.st = "ok"
          /\ ret.val = [username |-> qUser.out, email |-> qEmail.out]
          /\ qUser.outcome = "exit0" => ret.val.username = ghAccount.login
          /\ qEmail.outcome = "exit0" => ret.val.email = ghAccount.email
          /\ call.dryRun => gitStore = store0
          /\ ~call.dryRun =>
                /\ gitStore[call.scope]["user.name"]
                      \in {store0[call.scope]["user.name"], ret.val.username}
                /\ gitStore[call.scope]["user.email"]
                      \in {store0[call.scope]["user.email"], ret.val.email}
                /\ lastOutcome = "exit0" => gitStore[call.scope]["user.email"] = ret.val.email
    /\ (SetupWrites /\ pc = "setupGitIdentity_setEmail" /\ lastOutcome = "exit0") =>
          gitStore[call.scope]["user.name"] = qUser.out

\* C30 witness: a call without dry-run has stored the account's login and
\* email and returned them, and the dry-run call after it has returned the
\* same value.
C30_Witness ==
    /\ SetupReturned /\ call.dryRun
    /\ prev.fn = "setupGitIdentity"
    /\ prev.identity = ret.val
    /\ ret.val = [username |-> ghAccount.login, email |-> ghAccount.email]
    /\ gitStore[prev.scope] = [k \in Keys |-> IF k = "user.name" THEN ghAccount.login
                                               ELSE ghAccount.email]

====
